---- MODULE Spec2Model ----
(***************************************************************************)
(* Model of sqlrunner.go: the /execute HTTP handler registered by          *)
(* StartServer and the method DBConfig.ExecuteSQL it calls.                *)
(*                                                                         *)
(* Every in-flight request is one goroutine running the handler closure.   *)
(* A goroutine's position is pc[p]; its locals are the p-th entries of the *)
(* other variables.  The database driver is the environment: each call     *)
(* into it (sql.Open, db.Query, rows.Columns, rows.Next, rows.Scan,        *)
(* rows.Err, json.Marshal) is one step whose outcome is chosen             *)
(* nondeterministically among the outcomes the call can have.              *)
(***************************************************************************)
EXTENDS Integers, Sequences, FiniteSets, TLC

\* ------------------------------------------------------------------ bounds
MaxRows == 2        \* rows a cursor yields, one client at a time
MaxCols == 2        \* columns a cursor reports, one client at a time
ConcMaxRows == 1    \* the same, two concurrent clients
ConcMaxCols == 1

\* ------------------------------------------------------------ environment
Procs == {"r1", "r2"}          \* handler goroutines
SeqProcs == {"r1"}             \* the goroutine a sequential client uses

Methods == {"GET", "POST", "PUT"}
Queries == {"q1", "q2"}
ColNames == {"a", "b"}

\* A request body is <<kind, query text>>.
\*   empty        no bytes at all
\*   garbage      bytes that are not JSON
\*   array        a JSON value that is not an object:   []
\*   query_num    {"query": 5}
\*   null         the JSON value null
\*   obj_noquery  a JSON object without the query field: {} or {"sql": "x"}
\*   obj_query    {"query": "<text>"}
Bodies ==
    {<<k, "">> : k \in {"empty", "garbage", "array", "query_num", "null", "obj_noquery"}}
        \cup {<<"obj_query", q>> : q \in Queries}
ValidBodies == {<<"obj_query", q>> : q \in Queries}

\* Values the driver stores into an interface{} slot: <<dynamic type, payload>>.
Values == {<<"nil", 0>>, <<"int64", 1>>, <<"bytes", 1>>}
ConcValues == {<<"nil", 0>>, <<"int64", 1>>}

Range(s) == {s[i] : i \in 1..Len(s)}
ColLists(n) == UNION {[1..k -> ColNames] : k \in 0..n}

\* --------------------------------------------------------------- the state
VARIABLES
    pc,          \* position of each goroutine
    method,      \* r.Method
    body,        \* r.Body
    sqlReq,      \* sqlReq.Query after Decode
    dbOpen,      \* the *sql.DB of this call is open
    rowsOpen,    \* the *sql.Rows of this call is open
    opened,      \* sql.Open was called for this request
    dispatched,  \* db.Query was called for this request
    columns,     \* columns, as returned by rows.Columns
    fetched,     \* rows the cursor has handed to rows.Scan so far
    result,      \* the local result of ExecuteSQL
    failStage,   \* the stage at which the driver or encoder failed, or "none"
    ret,         \* the pair ExecuteSQL returned
    resp         \* what the handler wrote to the ResponseWriter

vars == <<pc, method, body, sqlReq, dbOpen, rowsOpen, opened, dispatched,
          columns, fetched, result, failStage, ret, resp>>

\* ------------------------------------------------------------ pure helpers

\* r.Method != http.MethodPost
MethodAllowedNotGet(m) == m # "GET"

MethodAllowed(m) == m = "POST"

\* json.NewDecoder(r.Body).Decode(&sqlReq) into SQLRequest{Query string `json:"query"`}:
\* a syntax error, EOF or a type mismatch is an error; null and an object
\* without the field leave Query at its zero value.
DecodeLax(b) ==
    IF b[1] \in {"empty", "garbage"}
    THEN [ok |-> FALSE, Query |-> ""]
    ELSE [ok |-> TRUE, Query |-> b[2]]

Decode(b) ==
    IF b[1] \in {"empty", "garbage", "array", "query_num"}
    THEN [ok |-> FALSE, Query |-> ""]
    ELSE [ok |-> TRUE, Query |-> b[2]]

\* result before its declaration is reached: no slice at all
NoResult == [isNil |-> TRUE, items |-> <<>>]

\* result := []map[string]interface{}{}  -- an empty, non-nil slice
NilSliceResult == [isNil |-> TRUE, items |-> <<>>]

EmptyResult == [isNil |-> FALSE, items |-> <<>>]

\* rowMap := make(map...); for i, colName := range columns { rowMap[colName] = *val }
\* A later column of the same name overwrites an earlier one.
LastIndex(cols, c) ==
    CHOOSE i \in 1..Len(cols) :
        /\ cols[i] = c
        /\ \A j \in 1..Len(cols) : cols[j] = c => j <= i

RowMap(cols, data) == [c \in Range(cols) |-> data[LastIndex(cols, c)]]

\* result = append(result, rowMap)
AppendRow(res, rowMap) == [isNil |-> FALSE, items |-> Append(res.items, rowMap)]

\* encoding/json on one interface{} value: nil is null, an integer a number,
\* a []byte the base64 text of its bytes.
MarshalValue(v) ==
    IF v[1] = "nil" THEN <<"null", 0>>
    ELSE IF v[1] = "int64" THEN <<"number", v[2]>>
    ELSE <<"base64", v[2]>>

\* json.Marshal(SQLResponse{Result: result}): a nil slice encodes as null,
\* Error is omitted when empty (omitempty).
MarshalResponse(res) ==
    [present |-> TRUE,
     resultNull |-> res.isNil,
     result |-> [i \in 1..Len(res.items) |->
                    [c \in DOMAIN res.items[i] |-> MarshalValue(res.items[i][c])]]]

\* the string "" of every error return
NoOutput == [present |-> FALSE, resultNull |-> FALSE, result |-> <<>>]

NoError == ""
NoRet == [out |-> NoOutput, err |-> NoError]

\* return "", fmt.Errorf(...)
ErrReturn(msg) == [out |-> NoOutput, err |-> msg]

\* if err := rows.Err(); err != nil { return "", ... }
IterErrReturnPartial(res) ==
    [out |-> MarshalResponse(res), err |-> "error iterating over rows"]

IterErrReturn(res) == ErrReturn("error iterating over rows")

\* defer rows.Close(): runs on every return after db.Query succeeded
RowsOpenAfterReturnNoDefer(open, failed) == open /\ failed

RowsOpenAfterReturn(open, failed) == FALSE

\* defer db.Close(): runs on every return after sql.Open succeeded
DbOpenAfterReturnNoDefer(open, failed) == open /\ failed

DbOpenAfterReturn(open, failed) == FALSE

\* The frame that holds the locals of the call made by goroutine p.
SharedFrame(p) == "r1"

Frame(p) == p

\* http.Error(w, msg, code)
HttpError(msg, code) ==
    [status |-> code, ctype |-> "text/plain; charset=utf-8", json |-> FALSE,
     resultNull |-> FALSE, result |-> <<>>, errorField |-> FALSE, text |-> msg]

\* w.Header().Set("Content-Type", "application/json"); w.Write([]byte(result))
WriteJSON(out) ==
    [status |-> 200, ctype |-> "application/json", json |-> TRUE,
     resultNull |-> out.resultNull, result |-> out.result,
     errorField |-> FALSE, text |-> ""]

NoResp ==
    [status |-> 0, ctype |-> "", json |-> FALSE,
     resultNull |-> FALSE, result |-> <<>>, errorField |-> FALSE, text |-> ""]

\* ------------------------------------------------------------------- Init
Init ==
    /\ pc = [p \in Procs |-> "idle"]
    /\ method = [p \in Procs |-> "POST"]
    /\ body = [p \in Procs |-> <<"empty", "">>]
    /\ sqlReq = [p \in Procs |-> ""]
    /\ dbOpen = [p \in Procs |-> FALSE]
    /\ rowsOpen = [p \in Procs |-> FALSE]
    /\ opened = [p \in Procs |-> FALSE]
    /\ dispatched = [p \in Procs |-> FALSE]
    /\ columns = [p \in Procs |-> <<>>]
    /\ fetched = [p \in Procs |-> <<>>]
    /\ result = [p \in Procs |-> NoResult]
    /\ failStage = [p \in Procs |-> "none"]
    /\ ret = [p \in Procs |-> NoRet]
    /\ resp = [p \in Procs |-> NoResp]

\* ---------------------------------------------------------------- actions

\* The server accepts a request and starts the handler goroutine.
Receive(p, methods, bodies) ==
    /\ pc[p] = "idle"
    /\ \E m \in methods, b \in bodies :
        /\ method' = [method EXCEPT ![p] = m]
        /\ body' = [body EXCEPT ![p] = b]
    /\ pc' = [pc EXCEPT ![p] = "handler"]
    /\ UNCHANGED <<sqlReq, dbOpen, rowsOpen, opened, dispatched, columns,
                   fetched, result, failStage, ret, resp>>

\* The method check and the body decoding of the handler.
Handle(p) ==
    /\ pc[p] = "handler"
    /\ IF ~MethodAllowed(method[p])
       THEN /\ resp' = [resp EXCEPT ![p] = HttpError("Only POST method is supported", 405)]
            /\ pc' = [pc EXCEPT ![p] = "done"]
            /\ UNCHANGED sqlReq
       ELSE IF ~Decode(body[p]).ok
       THEN /\ resp' = [resp EXCEPT ![p] = HttpError("Invalid request payload", 400)]
            /\ pc' = [pc EXCEPT ![p] = "done"]
            /\ UNCHANGED sqlReq
       ELSE /\ sqlReq' = [sqlReq EXCEPT ![p] = Decode(body[p]).Query]
            /\ pc' = [pc EXCEPT ![p] = "open"]
            /\ UNCHANGED resp
    /\ UNCHANGED <<method, body, dbOpen, rowsOpen, opened, dispatched, columns,
                   fetched, result, failStage, ret>>

\* A return statement of ExecuteSQL: the deferred Close calls run, the pair
\* goes back to the handler.
Return(p, r, stage) ==
    /\ ret' = [ret EXCEPT ![p] = r]
    /\ failStage' = [failStage EXCEPT ![p] = stage]
    /\ rowsOpen' = [rowsOpen EXCEPT ![p] = RowsOpenAfterReturn(rowsOpen[p], stage # "none")]
    /\ dbOpen' = [dbOpen EXCEPT ![p] = DbOpenAfterReturn(dbOpen[p], stage # "none")]
    /\ pc' = [pc EXCEPT ![p] = "respond"]

\* db, err := sql.Open("mysql", config.DSN)
SqlOpen(p) ==
    /\ pc[p] = "open"
    /\ opened' = [opened EXCEPT ![p] = TRUE]
    /\ \/ /\ dbOpen' = [dbOpen EXCEPT ![p] = TRUE]
          /\ pc' = [pc EXCEPT ![p] = "query"]
          /\ UNCHANGED <<rowsOpen, failStage, ret>>
       \/ Return(p, ErrReturn("failed to connect to the database"), "connect")
    /\ UNCHANGED <<method, body, sqlReq, dispatched, columns, fetched, result, resp>>

\* rows, err := db.Query(query)
DbQuery(p) ==
    /\ pc[p] = "query"
    /\ dispatched' = [dispatched EXCEPT ![p] = TRUE]
    /\ \/ /\ rowsOpen' = [rowsOpen EXCEPT ![p] = TRUE]
          /\ pc' = [pc EXCEPT ![p] = "columns"]
          /\ UNCHANGED <<dbOpen, failStage, ret>>
       \/ Return(p, ErrReturn("query execution failed"), "dispatch")
    /\ UNCHANGED <<method, body, sqlReq, opened, columns, fetched, result, resp>>

\* columns, err := rows.Columns(); result := []map[string]interface{}{}
RowsColumns(p, maxCols) ==
    /\ pc[p] = "columns"
    /\ \/ /\ \E cols \in ColLists(maxCols) : columns' = [columns EXCEPT ![p] = cols]
          /\ result' = [result EXCEPT ![Frame(p)] = EmptyResult]
          /\ pc' = [pc EXCEPT ![p] = "next"]
          /\ UNCHANGED <<dbOpen, rowsOpen, failStage, ret>>
       \/ /\ Return(p, ErrReturn("failed to get columns"), "columns")
          /\ UNCHANGED <<columns, result>>
    /\ UNCHANGED <<method, body, sqlReq, opened, dispatched, fetched, resp>>

\* for rows.Next() { ... }  followed by  rows.Err()
RowsNext(p, maxRows) ==
    /\ pc[p] = "next"
    /\ \/ /\ Len(columns[p]) > 0
          /\ Len(fetched[p]) < maxRows
          /\ pc' = [pc EXCEPT ![p] = "scan"]
          /\ UNCHANGED <<dbOpen, rowsOpen, failStage, ret>>
       \/ /\ pc' = [pc EXCEPT ![p] = "marshal"]
          /\ UNCHANGED <<dbOpen, rowsOpen, failStage, ret>>
       \/ Return(p, IterErrReturn(result[Frame(p)]), "stream")
    /\ UNCHANGED <<method, body, sqlReq, opened, dispatched, columns, fetched,
                   result, resp>>

\* rows.Scan(columnPointers...), the rowMap, the append
RowsScan(p, values) ==
    /\ pc[p] = "scan"
    /\ \/ /\ \E data \in [1..Len(columns[p]) -> values] :
                /\ fetched' = [fetched EXCEPT ![p] = Append(@, data)]
                /\ result' = [result EXCEPT ![Frame(p)] =
                                 AppendRow(result[Frame(p)], RowMap(columns[p], data))]
          /\ pc' = [pc EXCEPT ![p] = "next"]
          /\ UNCHANGED <<dbOpen, rowsOpen, failStage, ret>>
       \/ /\ Return(p, ErrReturn("failed to scan row"), "scan")
          /\ UNCHANGED <<fetched, result>>
    /\ UNCHANGED <<method, body, sqlReq, opened, dispatched, columns, resp>>

\* jsonResult, err := json.Marshal(resp); return string(jsonResult), nil
Marshal(p) ==
    /\ pc[p] = "marshal"
    /\ \/ Return(p, [out |-> MarshalResponse(result[Frame(p)]), err |-> NoError], "none")
       \/ Return(p, ErrReturn("failed to marshal result to JSON"), "marshal")
    /\ UNCHANGED <<method, body, sqlReq, opened, dispatched, columns, fetched,
                   result, resp>>

\* result, err := dbConfig.ExecuteSQL(...); if err != nil { http.Error } else Write
Respond(p) ==
    /\ pc[p] = "respond"
    /\ resp' = [resp EXCEPT ![p] =
                  IF ret[p].err # NoError
                  THEN HttpError(ret[p].err, 500)
                  ELSE WriteJSON(ret[p].out)]
    /\ pc' = [pc EXCEPT ![p] = "done"]
    /\ UNCHANGED <<method, body, sqlReq, dbOpen, rowsOpen, opened, dispatched,
                   columns, fetched, result, failStage, ret>>

\* The handler returns; the goroutine's locals are gone.
Finish(p) ==
    /\ pc[p] = "done"
    /\ pc' = [pc EXCEPT ![p] = "idle"]
    /\ method' = [method EXCEPT ![p] = "POST"]
    /\ body' = [body EXCEPT ![p] = <<"empty", "">>]
    /\ sqlReq' = [sqlReq EXCEPT ![p] = ""]
    /\ opened' = [opened EXCEPT ![p] = FALSE]
    /\ dispatched' = [dispatched EXCEPT ![p] = FALSE]
    /\ columns' = [columns EXCEPT ![p] = <<>>]
    /\ fetched' = [fetched EXCEPT ![p] = <<>>]
    /\ result' = [result EXCEPT ![p] = NoResult]
    /\ failStage' = [failStage EXCEPT ![p] = "none"]
    /\ ret' = [ret EXCEPT ![p] = NoRet]
    /\ resp' = [resp EXCEPT ![p] = NoResp]
    /\ UNCHANGED <<dbOpen, rowsOpen>>

\* --------------------------------------------------------- specifications

\* One client, one request at a time, any method and body.
Next ==
    \E p \in SeqProcs :
        \/ Receive(p, Methods, Bodies)
        \/ Handle(p)
        \/ SqlOpen(p)
        \/ DbQuery(p)
        \/ RowsColumns(p, MaxCols)
        \/ RowsNext(p, MaxRows)
        \/ RowsScan(p, Values)
        \/ Marshal(p)
        \/ Respond(p)
        \/ Finish(p)

Spec == Init /\ [][Next]_vars

\* Two clients sending valid requests concurrently.
NextConc ==
    \E p \in Procs :
        \/ Receive(p, {"POST"}, ValidBodies)
        \/ Handle(p)
        \/ SqlOpen(p)
        \/ DbQuery(p)
        \/ RowsColumns(p, ConcMaxCols)
        \/ RowsNext(p, ConcMaxRows)
        \/ RowsScan(p, ConcValues)
        \/ Marshal(p)
        \/ Respond(p)
        \/ Finish(p)

SpecConc == Init /\ [][NextConc]_vars

\* ------------------------------------------------------------------ claims

InFlight(p) == pc[p] \in {"open", "query", "columns", "next", "scan", "marshal", "respond"}

\* ExecuteSQL was called for the request of p and returned without an error.
Succeeded(p) == pc[p] = "done" /\ dispatched[p] /\ failStage[p] = "none"

\* C1: a request whose method is not POST is answered 405, and at no point
\* of that request is sql.Open called, a handle open or a query dispatched.
C1_NonPostRejected ==
    \A p \in Procs :
        (pc[p] # "idle" /\ method[p] # "POST") =>
            /\ pc[p] \in {"handler", "done"}
            /\ ~opened[p] /\ ~dispatched[p] /\ ~dbOpen[p] /\ ~rowsOpen[p]
            /\ pc[p] = "done" => resp[p].status = 405

C1_Witness ==
    \E p \in Procs :
        /\ pc[p] = "done" /\ method[p] = "GET"
        /\ body[p] = <<"obj_query", "q1">>
        /\ resp[p].status = 405

C3_Original ==
    \A p \in Procs :
        Succeeded(p) =>
            /\ resp[p].status = 200
            /\ Len(resp[p].result) = Len(fetched[p])
            /\ \A i \in 1..Len(resp[p].result) :
                /\ DOMAIN resp[p].result[i] = Range(columns[p])
                /\ Cardinality(DOMAIN resp[p].result[i]) = Len(columns[p])

\* C4: a failure at any stage makes ExecuteSQL return an error with the
\* empty string, the response then has no rows, and no response has both
\* rows and an error.
C4_AllOrNothing ==
    \A p \in Procs :
        /\ (pc[p] \in {"respond", "done"} /\ failStage[p] # "none") =>
                ret[p].err # NoError /\ ret[p].out = NoOutput
        /\ (pc[p] = "done" /\ failStage[p] # "none") =>
                resp[p].result = <<>> /\ resp[p].status # 200
        /\ pc[p] = "done" =>
                ~(resp[p].result # <<>>
                    /\ (resp[p].status # 200 \/ resp[p].errorField \/ resp[p].text # ""))

C4_Witness ==
    \E p \in Procs :
        /\ pc[p] = "done" /\ failStage[p] = "stream"
        /\ Len(fetched[p]) >= 1
        /\ resp[p].result = <<>>

\* C5: when ExecuteSQL fails for a well-formed POST, the handler writes the
\* JSON envelope with an empty or absent result and a non-empty error field,
\* with status 500.
C5_Original ==
    \A p \in Procs :
        (pc[p] = "done" /\ ret[p].err # NoError) =>
            /\ resp[p].status = 500
            /\ resp[p].json /\ resp[p].errorField
            /\ resp[p].text # ""
            /\ resp[p].result = <<>>

\* C6: a query that succeeds with zero rows is answered with the envelope
\* whose result field is present and is the empty sequence, not null, and
\* that has no error.
C6_EmptyIsPresent ==
    \A p \in Procs :
        (Succeeded(p) /\ Len(fetched[p]) = 0) =>
            /\ resp[p].status = 200 /\ resp[p].json
            /\ ~resp[p].resultNull /\ resp[p].result = <<>>
            /\ ~resp[p].errorField /\ resp[p].text = ""

C6_Witness ==
    \E p \in Procs :
        /\ Succeeded(p) /\ Len(fetched[p]) = 0 /\ Len(columns[p]) > 0
        /\ resp[p].status = 200

\* C7: a cursor opened by db.Query is closed when ExecuteSQL has returned,
\* whatever the return path.
C7_CursorClosed ==
    \A p \in Procs :
        rowsOpen[p] => pc[p] \in {"columns", "next", "scan", "marshal"}

C7_Witness ==
    \E p \in Procs :
        /\ pc[p] = "respond" /\ failStage[p] = "scan"
        /\ Len(fetched[p]) >= 1 /\ ~rowsOpen[p]

\* C8: a handle opened by sql.Open is closed when ExecuteSQL has returned,
\* whatever the return path; when no request is in flight no handle is open.
C8_HandleReleased ==
    /\ \A p \in Procs :
        dbOpen[p] => pc[p] \in {"query", "columns", "next", "scan", "marshal"}
    /\ (\A p \in Procs : ~InFlight(p)) => Cardinality({p \in Procs : dbOpen[p]}) = 0

C8_Witness ==
    \E p \in Procs :
        /\ pc[p] = "done" /\ failStage[p] = "dispatch"
        /\ opened[p] /\ ~dbOpen[p]

\* The records one call builds from its own cursor when it runs alone.
OwnRecords(p) ==
    [i \in 1..Len(fetched[p]) |->
        [c \in Range(columns[p]) |-> fetched[p][i][LastIndex(columns[p], c)]]]

OwnEncoded(p) ==
    [i \in 1..Len(fetched[p]) |->
        [c \in Range(columns[p]) |-> MarshalValue(fetched[p][i][LastIndex(columns[p], c)])]]

\* C9: under any interleaving of two valid requests, each call holds, returns
\* and each response carries exactly the records of its own cursor.
C9_Isolated ==
    \A p \in Procs :
        /\ pc[p] \in {"next", "scan", "marshal"} => result[p].items = OwnRecords(p)
        /\ (pc[p] \in {"respond", "done"} /\ failStage[p] = "none" /\ dispatched[p]) =>
                ret[p].out.result = OwnEncoded(p)
        /\ Succeeded(p) => resp[p].status = 200 /\ resp[p].result = OwnEncoded(p)

C9_Witness ==
    /\ pc["r1"] = "done" /\ pc["r2"] = "done"
    /\ Succeeded("r1") /\ Succeeded("r2")
    /\ sqlReq["r1"] # sqlReq["r2"]
    /\ Len(fetched["r1"]) >= 1 /\ Len(fetched["r2"]) >= 1
    /\ resp["r1"].result # resp["r2"].result

\* C10: on success the i-th record comes from the i-th row, and the value of
\* every column position of the row is the record's value under that
\* column's name, nil staying nil.
C10_Original ==
    \A p \in Procs :
        Succeeded(p) =>
            /\ Len(result[p].items) = Len(fetched[p])
            /\ \A i \in 1..Len(fetched[p]) :
                \A j \in 1..Len(columns[p]) :
                    result[p].items[i][columns[p][j]] = fetched[p][i][j]

====
